---- MODULE Spec2Model ----
(***************************************************************************)
(* NUFFT_hsa (src/linalg/nufft_hsa.py): the device-resident NUFFT core.    *)
(*                                                                         *)
(* One thread drives the instances.  A public call runs to completion in   *)
(* one action; the action evaluates the method body by threading a machine *)
(* record m (the instance, the CUDA context on top of the stack, the       *)
(* buffers of the call, the device operations issued so far) through the   *)
(* methods in source order.  Every method returns [m, err, ret]: the       *)
(* machine after it, the exception it raised (NoErr when it returned) and  *)
(* the index of the returned buffer.                                       *)
(*                                                                         *)
(* Array contents are symbolic terms (nested tuples): a kernel wraps the   *)
(* term of its input, so two buffers are equal exactly when they were      *)
(* computed by the same kernels from the same data.                        *)
(***************************************************************************)
EXTENDS Integers, Sequences, FiniteSets, TLC

VARIABLES obj, active, pc, last

vars == <<obj, active, pc, last>>

\* ---------------------------------------------------------------- bounds
N0 == 2
MaxBatch == 2
MaxFault == 2

Inst == {1, 2}

\* ---------------------------------------------------------------- shapes
Nd == <<N0>>
Kd == <<2 * N0>>
M == N0 + 1

RECURSIVE Count(_)
Count(shape) == IF shape = <<>> THEN 1 ELSE Head(shape) * Count(Tail(shape))

Ndprod == Count(Nd)
Kdprod == Count(Kd)

\* ---------------------------------------------------------------- values
Ones == <<"ones">>
Zero == <<"zero">>
Uninit == <<"uninit">>
Garbage == <<"garbage">>
NoVal == <<"nil">>

Data == {<<"a">>, <<"b">>}
Wide == {<<"w">>}

\* image.astype(numpy.complex64): complex64 data is kept, wider data is rounded
astype(v) == IF v \in Wide THEN <<"c64", v>> ELSE v

NoBuf == [loc |-> "nil", shape |-> <<>>, val |-> NoVal]
NoErr == [type |-> "none", at |-> "none", n |-> 0]

\* ---------------------------------------------------------------- results
Ok(m, ret) == [m |-> m, err |-> NoErr, ret |-> ret]

Fail(m, type, at) ==
  [m |-> [m EXCEPT !.nexc = @ + 1],
   err |-> [type |-> type, at |-> at, n |-> m.nexc + 1],
   ret |-> 0]

\* a bare raise in a handler: the exception being handled goes on
Raise(m, err) == [m |-> m, err |-> err, ret |-> 0]

\* v is evaluated once and named in F
Bind(v, F(_)) == CHOOSE r \in {F(x) : x \in {v}} : TRUE

\* statement sequencing: r, and when it returned, F on its machine and value;
\* an exception of r passes through unchanged
Then(r, F(_, _)) ==
  Bind(r, LAMBDA v : IF v.err # NoErr THEN Raise(v.m, v.err) ELSE F(v.m, v.ret))

\* try: r / except: H on the machine and the exception / afterwards: F
Try(r, F(_, _), H(_, _)) ==
  Bind(r, LAMBDA v : IF v.err # NoErr THEN H(v.m, v.err) ELSE F(v.m, v.ret))

\* ------------------------------------------------------- context decorator
\* args[0].thr._context.push(); without self.thr the lookup raises, and any
\* exception is swallowed
push_cuda_context(m) ==
  IF m.pushOk /\ m.o.thr
  THEN [m EXCEPT !.active = m.self, !.npush = @ + 1]
  ELSE m

\* the wrapper calls hsa_method whether or not the push succeeded
wrapper(m, hsa_method) ==
  [push_cuda_context(m) EXCEPT !.calls = Append(@, hsa_method)]

\* ---------------------------------------------------- execution context
Dev(m, name) ==
  [m EXCEPT !.dev = Append(@, [op |-> name, by |-> m.self, ctx |-> m.active])]

Top(m) == Len(m.heap)

\* thr.array(shape): a fresh device buffer, returned as its index
Array(m, shape) ==
  IF ~m.o.thr THEN Fail(m, "AttributeError", "thr") ELSE
  Ok([m EXCEPT !.heap = Append(@, [loc |-> "dev", shape |-> shape, val |-> Uninit]),
               !.dev = Append(@, [op |-> "array", by |-> m.self, ctx |-> m.active])],
     Top(m) + 1)

Write(m, b, v) == [m EXCEPT !.heap[b].val = v]

Fill(m, b, v) ==
  Ok([m EXCEPT !.heap[b].val = v,
               !.dev = Append(@, [op |-> "fill", by |-> m.self, ctx |-> m.active])], b)

Stage(m, name, in, out) ==
  Ok([m EXCEPT !.stages = Append(@, [name |-> name, in |-> in, out |-> out])], out)

\* A kernel launch on the buffers of `need` (pairs <<buffer, elements read
\* or written>>), writing `val` to buffer `out`.  A host array or a
\* non-array is no kernel argument.  A launch that indexes past the end of
\* a buffer is undefined: it faults or it leaves garbage.
Kernel(m, name, need, out, val) ==
  IF \E p \in need : m.heap[p[1]].loc # "dev"
  THEN Fail(m, "TypeError", name)
  ELSE IF \E p \in need : Count(m.heap[p[1]].shape) < p[2]
       THEN IF m.nfault > 0
            THEN Fail(Dev([m EXCEPT !.nfault = @ - 1], name), "LaunchError", name)
            ELSE Ok(Write(Dev(m, name), out, Garbage), out)
       ELSE Ok(Write(Dev(m, name), out, val), out)

\* self.<attribute>: a missing attribute raises
Has(m, present, at) == IF present THEN Ok(m, 0) ELSE Fail(m, "AttributeError", at)

\* the attributes a stage reads first: self.thr and those made by plan
Planned(m, at) == Has(m, m.o.planned /\ m.o.thr, at)

\* x.shape
HasShape(m, x, at) ==
  IF m.heap[x].loc = "none" THEN Fail(m, "AttributeError", at) ELSE Ok(m, x)

\* ------------------------------------------------------------- to_device
\* a to_device that allocates the device array but copies nothing into it
to_device_nocopy(m0, image) ==
  Then(HasShape([wrapper(m0, "to_device") EXCEPT !.nxfer = @ + 1], image, "to_device"),
  LAMBDA m1, i :
    Then(Array(m1, m1.heap[image].shape),
    LAMBDA m2, g_image : Ok(Dev(m2, "to_device"), g_image)))

to_device(m0, image) ==
  Then(HasShape([wrapper(m0, "to_device") EXCEPT !.nxfer = @ + 1], image, "to_device"),
  LAMBDA m1, i :
    Then(Array(m1, m1.heap[image].shape),
    LAMBDA m2, g_image :
      IF m2.heap[image].loc = "dev" /\ ~m2.devXfer
      THEN Fail(m2, "TypeError", "to_device")        \* a device array is no host source
      ELSE Ok(Write(Dev(m2, "to_device"), g_image, astype(m2.heap[image].val)), g_image)))

\* ---------------------------------------------------------------- stages
\* cTensorMultiply on a copy of the input (x2xx and xx2x share the body)
\* a scaling that multiplies the buffer it is given instead of a copy of it
ScaleInPlace(m0, x, name) ==
  Then(HasShape(wrapper(m0, name), x, name),
  LAMBDA m1, i :
    IF m1.heap[x].loc # "dev"
    THEN Fail(m1, "TypeError", name)
    ELSE Then(Planned(m1, name),
         LAMBDA m3, j :
           Then(Kernel(m3, "cTensorMultiply", {<<x, m3.o.batch * Ndprod>>}, x,
                       <<"scale", m3.o.tSN, m3.heap[x].val>>),
           LAMBDA m4, r : Stage(m4, name, x, x))))

ScaleCopy(m0, x, name) ==
  Then(HasShape(wrapper(m0, name), x, name),
  LAMBDA m1, i :
    Then(Array(m1, m1.heap[x].shape),
    LAMBDA m2, xx :
      IF m2.heap[x].loc # "dev"
      THEN Fail(m2, "TypeError", name)               \* copy_array of a host array
      ELSE Then(Planned(Write(Dev(m2, "copy_array"), xx, m2.heap[x].val), name),
           LAMBDA m3, j :
             Then(Kernel(m3, "cTensorMultiply", {<<xx, m3.o.batch * Ndprod>>}, xx,
                         <<"scale", m3.o.tSN, m3.heap[xx].val>>),
             LAMBDA m4, r : Stage(m4, name, x, xx)))))

x2xx(m0, x) == ScaleCopy(m0, x, "x2xx")

xx2x(m0, xx) == ScaleCopy(m0, xx, "xx2x")

xx2k(m0, xx) ==
  Then(Planned(wrapper(m0, "xx2k"), "xx2k"),
  LAMBDA m1, i :
    Then(Array(m1, m1.o.multi_Kd),
    LAMBDA m2, k :
      Then(Fill(m2, k, Zero),
      LAMBDA m3, j :
        Then(Kernel(m3, "cTensorCopy",
                    {<<xx, m3.o.batch * Ndprod>>, <<k, m3.o.batch * Kdprod>>}, k,
                    <<"embed", m3.heap[xx].val>>),
        LAMBDA m4, r :
          Then(Kernel(m4, "fft", {<<k, Count(m4.o.fftShape)>>}, k,
                      <<"fft", m4.heap[k].val>>),
          LAMBDA m5, q : Stage(m5, "xx2k", xx, k))))))

k2y(m0, k) ==
  Then(Planned(wrapper(m0, "k2y"), "k2y"),
  LAMBDA m1, i :
    Then(Array(m1, m1.o.multi_M),
    LAMBDA m2, y :
      Then(Fill(m2, y, Zero),
      LAMBDA m3, j :
        Then(Kernel(m3, "pELL_spmv_mCoil",
                    {<<k, m3.o.batch * Kdprod>>, <<y, m3.o.batch * M>>}, y,
                    <<"gather", m3.o.pELL, m3.heap[k].val>>),
        LAMBDA m4, r : Stage(m4, "k2y", k, y)))))

y2k(m0, y) ==
  Then(Planned(wrapper(m0, "y2k"), "y2k"),
  LAMBDA m1, i :
    Then(Array(m1, m1.o.multi_Kd),                   \* kx and ky, real and imaginary part
    LAMBDA m2, kxy :
      Then(Fill(m2, kxy, Zero),
      LAMBDA m3, j :
        Then(Kernel(m3, "pELL_spmvh_mCoil",
                    {<<kxy, m3.o.batch * Kdprod>>, <<y, m3.o.batch * M>>}, kxy,
                    <<"scatter", m3.o.pELL, m3.heap[y].val>>),
        LAMBDA m4, r :
          Then(Array(m4, m4.o.multi_Kd),             \* k = kx + 1.0j * ky
          LAMBDA m5, k :
            Stage(Write(Dev(m5, "add"), k, m5.heap[kxy].val), "y2k", y, k))))))

k2xx(m0, k) ==
  Then(Planned(wrapper(m0, "k2xx"), "k2xx"),
  LAMBDA m1, i :
    Then(Kernel(m1, "fft", {<<k, Count(m1.o.fftShape)>>}, k, <<"ifft", m1.heap[k].val>>),
    LAMBDA m2, r :
      Then(Array(m2, m2.o.multi_Nd),
      LAMBDA m3, xx :
        Then(Fill(m3, xx, Zero),
        LAMBDA m4, j :
          Then(Kernel(m4, "cTensorCopy",
                      {<<k, m4.o.batch * Kdprod>>, <<xx, m4.o.batch * Ndprod>>}, xx,
                      <<"extract", m4.heap[k].val>>),
          LAMBDA m5, q : Stage(m5, "k2xx", k, xx))))))

\* ------------------------------------------------ multi-channel distributor
\* an s2x that populates the channels and leaves the sensitivities out
s2x_nosense(m0, s) ==
  Then(Planned(wrapper(m0, "s2x"), "s2x"),
  LAMBDA m1, i :
    Then(Array(m1, m1.o.multi_Nd),
    LAMBDA m2, x :
      Then(Kernel(m2, "cPopulate", {<<s, Ndprod>>, <<x, m2.o.batch * Ndprod>>}, x,
                  <<"populate", m2.heap[s].val>>),
      LAMBDA m3, r : Stage(m3, "s2x", s, x))))

s2x(m0, s) ==
  Then(Planned(wrapper(m0, "s2x"), "s2x"),
  LAMBDA m1, i :
    Then(Array(m1, m1.o.multi_Nd),
    LAMBDA m2, x :
      Then(Kernel(m2, "cPopulate", {<<s, Ndprod>>, <<x, m2.o.batch * Ndprod>>}, x,
                  <<"populate", m2.heap[s].val>>),
      LAMBDA m3, r :
        Then(Kernel(m3, "cMultiplyVecInplace", {<<x, m3.o.batch * Ndprod>>}, x,
                    <<"mul", m3.o.coil, m3.heap[x].val>>),
        LAMBDA m4, q : Stage(m4, "s2x", s, x)))))

\* an x2s whose in-place multiply has its two buffers exchanged
x2s_swapped(m0, x) ==
  Then(Planned(wrapper(m0, "x2s"), "x2s"),
  LAMBDA m1, i :
    Then(Array(m1, Nd),
    LAMBDA m2, s :
      Then(Kernel(m2, "cMultiplyConjVecInplace", {<<x, m2.o.batch * Ndprod>>}, x,
                  m2.heap[x].val),
      LAMBDA m3, r :
        Then(Kernel([m3 EXCEPT !.o.coil = <<"mulconj", m3.heap[x].val, m3.o.coil>>],
                    "cAggregate", {<<x, m3.o.batch * Ndprod>>, <<s, Ndprod>>}, s,
                    <<"aggregate", m3.heap[x].val>>),
        LAMBDA m4, q : Stage(m4, "x2s", x, s)))))

x2s(m0, x) ==
  Then(Planned(wrapper(m0, "x2s"), "x2s"),
  LAMBDA m1, i :
    Then(Array(m1, Nd),
    LAMBDA m2, s :
      Then(Kernel(m2, "cMultiplyConjVecInplace", {<<x, m2.o.batch * Ndprod>>}, x,
                  <<"mulconj", m2.o.coil, m2.heap[x].val>>),
      LAMBDA m3, r :
        Then(Kernel(m3, "cAggregate", {<<x, m3.o.batch * Ndprod>>, <<s, Ndprod>>}, s,
                    <<"aggregate", m3.heap[x].val>>),
        LAMBDA m4, q : Stage(m4, "x2s", x, s)))))

\* ------------------------------------------------------- transfer fallback
\* a failed attempt of entry point fn: phase is "first" or "fallback"
Attempt(m, fn, phase, err) ==
  [m EXCEPT !.fails = Append(@, [fn |-> fn, phase |-> phase, err |-> err])]

\* ---------------------------------------------------------------- forward
\* a forward that interpolates the scaled image without the FFT
forward_rest_nofft(m, xx) == k2y(m, xx)

forward_rest(m, xx) ==
  Then(xx2k(m, xx), LAMBDA m1, k : k2y(m1, k))

forward(m0, gx) ==
  Try(x2xx(wrapper(m0, "forward"), gx),
      forward_rest,
      LAMBDA m1, e1 :
        Try(Then(to_device(Attempt(m1, "forward", "first", e1), gx), x2xx),
            forward_rest,
            LAMBDA m2, e2 :
              \* the handler reads gxx, a name that is bound nowhere
              Fail(Attempt(m2, "forward", "fallback", e2), "NameError", "forward")))

\* ---------------------------------------------------------------- adjoint
adjoint_rest(m, k) ==
  Then(k2xx(m, k), LAMBDA m1, xx : xx2x(m1, xx))

adjoint(m0, gy) ==
  Try(y2k(wrapper(m0, "adjoint"), gy),
      adjoint_rest,
      LAMBDA m1, e1 :
        Try(Then(to_device(Attempt(m1, "adjoint", "first", e1), gy), y2k),
            adjoint_rest,
            LAMBDA m2, e2 : Raise(Attempt(m2, "adjoint", "fallback", e2), e2)))

\* ------------------------------------------------------- forward_one2many
forward_one2many(m0, s) ==
  Try(s2x(wrapper(m0, "forward_one2many"), s),
      forward,
      LAMBDA m1, e1 :
        Try(Then(to_device(Attempt(m1, "forward_one2many", "first", e1), s), s2x),
            forward,
            LAMBDA m2, e2 :
              Bind(Attempt(m2, "forward_one2many", "fallback", e2),
              LAMBDA mb :
                IF mb.heap[s].loc = "none"
                THEN Fail(mb, "AttributeError", "forward_one2many")          \* s.shape
                ELSE IF mb.heap[s].shape # Nd
                     THEN Fail(mb, "UnboundLocalError", "forward_one2many")  \* print(x.shape)
                     ELSE Raise(mb, e2))))

\* ------------------------------------------------------- adjoint_many2one
adjoint_many2one(m0, y) ==
  Try(adjoint(wrapper(m0, "adjoint_many2one"), y),
      x2s,
      LAMBDA m1, e1 :
        Try(Then(Then(HasShape(Attempt(m1, "adjoint_many2one", "first", e1), y,
                               "adjoint_many2one"),                          \* print(y.shape)
                      to_device),
                 adjoint),
            x2s,
            LAMBDA m2, e2 : Raise(Attempt(m2, "adjoint_many2one", "fallback", e2), e2)))

\* ------------------------------------------------------------ selfadjoint
\* a selfadjoint that stops after the forward half
selfadjoint_half(m0, gx) == forward(m0, gx)

selfadjoint(m0, gx) ==
  Then(forward(m0, gx), adjoint)

selfadjoint_one2many2one(m0, gx) ==
  Then(forward_one2many(wrapper(m0, "selfadjoint_one2many2one"), gx), adjoint_many2one)

\* ------------------------------------------------------------ sensitivity
\* a reset_sense that leaves the buffer as it is
reset_sense_keep(m0) ==
  Then(Planned(wrapper(m0, "reset_sense"), "reset_sense"),
  LAMBDA m1, i : Ok(m1, 0))

reset_sense(m0) ==
  Then(Planned(wrapper(m0, "reset_sense"), "reset_sense"),       \* self.volume
  LAMBDA m1, i : Ok(Dev([m1 EXCEPT !.o.coil = Ones], "fill"), 0))

set_sense(m0, coil_profile) ==
  Then(HasShape(wrapper(m0, "set_sense"), coil_profile, "set_sense"),
  LAMBDA m1, i :
    Then(Has(m1, m1.o.planned, "set_sense"),                \* self.multi_Nd
    LAMBDA m2, j :
      IF m2.heap[coil_profile].shape # m2.o.multi_Nd
      THEN Fail(m2, "ValueError", "set_sense")
      ELSE IF ~m2.o.thr \/ ~m2.o.volume
           THEN Fail(m2, "AttributeError", "set_sense")     \* self.thr, self.volume
      ELSE IF m2.heap[coil_profile].loc = "dev" /\ ~m2.devXfer
           THEN Fail(m2, "TypeError", "set_sense")          \* a device array is no host source
           ELSE Ok(Dev([m2 EXCEPT !.o.coil = astype(m2.heap[coil_profile].val)],
                       "to_device"), 0)))

\* ---------------------------------------------------------------- release
\* del self.volume, self.prg, self.pELL; self.thr.release(); del self.thr.
\* self.tSN and self.fft are not deleted.  thr.release() pops the context
\* made at construction, which leaves the one beneath it current.
release(m0) ==
  Then(Has(wrapper(m0, "release"), m0.o.volume, "release"),
  LAMBDA m1, i :
    Then(Has([m1 EXCEPT !.o.volume = FALSE, !.o.coil = NoVal], m1.o.prg, "release"),
    LAMBDA m2, j :
      Then(Has([m2 EXCEPT !.o.prg = FALSE], m2.o.pELL # NoVal, "release"),
      LAMBDA m3, k :
        Ok([Dev([m3 EXCEPT !.o.pELL = NoVal], "release")
              EXCEPT !.o.thr = FALSE,
                     !.npop = @ + 1,
                     !.active = IF m3.npush > 0 THEN m0.active ELSE 0], 0))))

\* ------------------------------------------------------------------- plan
NoneBatch == 0

\* Without self.thr the first transfer raises; self.pELL is then a dictionary
\* of host numbers only, which holds no device array.
offload(m0) ==
  Bind(wrapper(m0, "offload"),
  LAMBDA m1 :
    IF ~m1.o.thr THEN Fail(m1, "AttributeError", "offload") ELSE
    Bind(Dev(Dev([m1 EXCEPT !.o.pELL = <<"pELL">>], "to_device"), "to_device"),
    LAMBDA m2 :
      Bind(Dev(Dev([m2 EXCEPT !.o.coil = Ones, !.o.volume = TRUE], "array"), "fill"),
      LAMBDA m3 :
        Bind(Dev([m3 EXCEPT !.o.tSN = <<"tSN">>], "to_device"),
        LAMBDA m4 :
          Ok(Dev([m4 EXCEPT !.o.fftShape =
                     IF m4.o.batch > 1 THEN Kd \o <<m4.o.batch>> ELSE Kd,
                            !.o.planned = TRUE], "compile"), 0)))))

\* a plan for which batch=1 is the same as no batch
plan_flat(m0, batch) ==
  LET parallel_flag == IF batch = NoneBatch THEN 0 ELSE 1
      b == IF batch = NoneBatch THEN 1 ELSE batch
      single == b = 1
  IN offload([m0 EXCEPT !.o.parallel_flag = parallel_flag,
                        !.o.batch = b,
                        !.o.multi_Nd = IF single THEN Nd ELSE Nd \o <<b>>,
                        !.o.multi_Kd = IF single THEN Kd ELSE Kd \o <<b>>,
                        !.o.multi_M  = IF single THEN <<M>> ELSE <<M, b>>])

plan(m0, batch) ==
  LET parallel_flag == IF batch = NoneBatch THEN 0 ELSE 1
      b == IF batch = NoneBatch THEN 1 ELSE batch
      single == b = 1 /\ parallel_flag = 0
  IN offload([m0 EXCEPT !.o.parallel_flag = parallel_flag,
                        !.o.batch = b,
                        !.o.multi_Nd = IF single THEN Nd ELSE Nd \o <<b>>,
                        !.o.multi_Kd = IF single THEN Kd ELSE Kd \o <<b>>,
                        !.o.multi_M  = IF single THEN <<M>> ELSE <<M, b>>])

\* ------------------------------------------------------------------ solve
\* linalg/solve_hsa.solve, the external solver: it takes a device buffer
solve_hsa(m, gy) ==
  IF m.heap[gy].loc # "dev" \/ ~m.o.planned \/ ~m.o.thr
  THEN Fail(m, "TypeError", "solve_hsa")
  ELSE Then(Array(m, Nd),
       LAMBDA m1, x :
         Ok(Write(Dev(m1, "solve"), x, <<"solve", m1.o.pELL, m1.heap[gy].val>>), x))

solve(m0, gy) ==
  Try(solve_hsa(wrapper(m0, "solve"), gy),
      Ok,
      LAMBDA m1, e1 :
        Try(Then(to_device(Attempt(m1, "solve", "first", e1), gy), solve_hsa),
            Ok,
            LAMBDA m2, e2 : Raise(Attempt(m2, "solve", "fallback", e2), e2)))

\* ------------------------------------------------------------------ state
\* an instance after __init__: the thread and the program exist, no plan yet
New ==
  [planned |-> FALSE, parallel_flag |-> 0, batch |-> 0,
   multi_Nd |-> <<>>, multi_Kd |-> <<>>, multi_M |-> <<>>, fftShape |-> <<>>,
   coil |-> NoVal, pELL |-> NoVal, tSN |-> NoVal,
   thr |-> TRUE, prg |-> TRUE, volume |-> FALSE]

NoCall ==
  [op |-> "none", self |-> 0, arg |-> NoBuf, status |-> "none", err |-> NoErr,
   ret |-> 0, out |-> NoBuf, argAfter |-> NoBuf, before |-> New, ctx0 |-> 0,
   dev |-> <<>>, stages |-> <<>>, fails |-> <<>>, calls |-> <<>>,
   nxfer |-> 0, npush |-> 0, npop |-> 0]

\* the environment of one call: whether context.push() succeeds, whether the
\* backend copies from a device array, how many out-of-range launches fault
Envs == [pushOk : BOOLEAN, devXfer : BOOLEAN, nfault : 0..MaxFault]

Machine(i, heap, e) ==
  [self |-> i, o |-> obj[i], active |-> active, heap |-> heap,
   dev |-> <<>>, stages |-> <<>>, fails |-> <<>>, calls |-> <<>>,
   nexc |-> 0, npush |-> 0, npop |-> 0, nxfer |-> 0,
   pushOk |-> e.pushOk, devXfer |-> e.devXfer, nfault |-> e.nfault]

Shapes ==
  {Nd, <<M>>} \cup {Nd \o <<b>> : b \in 1..MaxBatch} \cup {<<M, b>> : b \in 1..MaxBatch}

NotArray == [loc |-> "none", shape |-> <<>>, val |-> NoVal]

Args ==
  {NotArray}
    \cup [loc : {"dev"}, shape : Shapes, val : Data]
    \cup [loc : {"host"}, shape : Shapes, val : Data \cup Wide]

Commit(i, op, a, result) ==
  /\ pc' = "done"
  /\ \E r \in {result} :
       /\ obj' = [obj EXCEPT ![i] = r.m.o]
       /\ active' = r.m.active
       /\ last' = [op |-> op, self |-> i, arg |-> a,
                   status |-> IF r.err = NoErr THEN "ok" ELSE "raised",
                   err |-> r.err,
                   ret |-> r.ret,
                   out |-> IF r.err = NoErr /\ r.ret > 0 THEN r.m.heap[r.ret] ELSE NoBuf,
                   argAfter |-> IF a = NoBuf THEN NoBuf ELSE r.m.heap[1],
                   before |-> obj[i], ctx0 |-> active,
                   dev |-> r.m.dev, stages |-> r.m.stages, fails |-> r.m.fails,
                   calls |-> r.m.calls,
                   nxfer |-> r.m.nxfer, npush |-> r.m.npush, npop |-> r.m.npop]

\* the instances are constructed in turn; api.Thread(device) makes the context
\* of the new instance the current one, so the last instance's is on top
Init ==
  /\ obj = [i \in Inst |-> New]
  /\ active = 2
  /\ pc = "idle"
  /\ last = NoCall

\* ---------------------------------------------------------------- actions
Plan(i, batch, e) ==
  /\ pc = "idle"
  /\ Commit(i, "plan", NoBuf, plan(Machine(i, <<>>, e), batch))

ResetSense(i, e) ==
  /\ pc = "idle"
  /\ Commit(i, "reset_sense", NoBuf, reset_sense(Machine(i, <<>>, e)))

Release(i, e) ==
  /\ pc = "idle"
  /\ Commit(i, "release", NoBuf, release(Machine(i, <<>>, e)))

SetSense(i, a, e) ==
  /\ pc = "idle"
  /\ Commit(i, "set_sense", a, set_sense(Machine(i, <<a>>, e), 1))

ToDevice(i, a, e) ==
  /\ pc = "idle"
  /\ Commit(i, "to_device", a, to_device(Machine(i, <<a>>, e), 1))

Forward(i, a, e) ==
  /\ pc = "idle"
  /\ Commit(i, "forward", a, forward(Machine(i, <<a>>, e), 1))

Adjoint(i, a, e) ==
  /\ pc = "idle"
  /\ Commit(i, "adjoint", a, adjoint(Machine(i, <<a>>, e), 1))

ForwardOne2Many(i, a, e) ==
  /\ pc = "idle"
  /\ Commit(i, "forward_one2many", a, forward_one2many(Machine(i, <<a>>, e), 1))

AdjointMany2One(i, a, e) ==
  /\ pc = "idle"
  /\ Commit(i, "adjoint_many2one", a, adjoint_many2one(Machine(i, <<a>>, e), 1))

SelfAdjoint(i, a, e) ==
  /\ pc = "idle"
  /\ Commit(i, "selfadjoint", a, selfadjoint(Machine(i, <<a>>, e), 1))

SelfAdjointOne2Many2One(i, a, e) ==
  /\ pc = "idle"
  /\ Commit(i, "selfadjoint_one2many2one", a,
            selfadjoint_one2many2one(Machine(i, <<a>>, e), 1))

Solve(i, a, e) ==
  /\ pc = "idle"
  /\ Commit(i, "solve", a, solve(Machine(i, <<a>>, e), 1))

\* the wrapper returns to the caller, which goes on to its next call
Return ==
  /\ pc = "done"
  /\ pc' = "idle"
  /\ last' = NoCall
  /\ UNCHANGED <<obj, active>>

Call(i, a, e) ==
  \/ SetSense(i, a, e)
  \/ ToDevice(i, a, e)
  \/ Forward(i, a, e)
  \/ Adjoint(i, a, e)
  \/ ForwardOne2Many(i, a, e)
  \/ AdjointMany2One(i, a, e)
  \/ SelfAdjoint(i, a, e)
  \/ SelfAdjointOne2Many2One(i, a, e)
  \/ Solve(i, a, e)

\* one instance driven with every kind of input
Next ==
  \/ \E e \in Envs : \E b \in 0..MaxBatch : Plan(1, b, e)
  \/ \E e \in Envs : ResetSense(1, e)
  \/ \E e \in Envs : Release(1, e)
  \/ \E e \in Envs : \E a \in Args : Call(1, a, e)
  \/ Return

Spec == Init /\ [][Next]_vars

\* both instances driven by the one thread, in any order, with arrays of
\* complex64 data; context.push() may fail
ArraysOf(v) == [loc : {"dev", "host"}, shape : Shapes, val : {v}]

PushEnvs == [pushOk : BOOLEAN, devXfer : {TRUE}, nfault : {0}]

NextMulti ==
  \/ \E i \in Inst : \E e \in PushEnvs : \E b \in 0..MaxBatch : Plan(i, b, e)
  \/ \E i \in Inst : \E e \in PushEnvs : ResetSense(i, e)
  \/ \E i \in Inst : \E e \in PushEnvs : Release(i, e)
  \/ \E i \in Inst : \E e \in PushEnvs : \E a \in ArraysOf(<<"a">>) : Call(i, a, e)
  \/ Return

SpecMulti == Init /\ [][NextMulti]_vars

\* ----------------------------------------------------------------- claims
Range(f) == {f[k] : k \in DOMAIN f}

\* a call of one of ops on an instance that is planned and not released
Done(ops) ==
  pc = "done" /\ last.op \in ops /\ last.before.planned /\ last.before.thr

IsArray(a) == a.loc \in {"dev", "host"}

\* what the three forward stages make of the data v, and the three adjoint stages
ForwardOf(o, v) == <<"gather", o.pELL, <<"fft", <<"embed", <<"scale", o.tSN, v>>>>>>>>

AdjointOf(o, v) == <<"scale", o.tSN, <<"extract", <<"ifft", <<"scatter", o.pELL, v>>>>>>>>

\* channel distribution and channel combination with sensitivity c
DistributeOf(c, v) == <<"mul", c, <<"populate", v>>>>

CombineOf(c, v) == <<"aggregate", <<"mulconj", c, v>>>>

Names(stages) == [k \in DOMAIN stages |-> stages[k].name]

\* every stage reads the buffer the stage before it wrote, the last one
\* wrote the returned buffer
Chained(c) ==
  /\ \A k \in 1..(Len(c.stages) - 1) : c.stages[k + 1].in = c.stages[k].out
  /\ c.stages # <<>> => c.stages[Len(c.stages)].out = c.ret

FallbackOps == {"forward", "adjoint", "forward_one2many", "adjoint_many2one", "solve"}

FailsOf(c, phase) == {f \in Range(c.fails) : f.fn = c.op /\ f.phase = phase}

\* C1: when the first attempt and the transfer retry of an entry point both
\* fail, the caller gets the exception of the first attempt.
C1_FirstFailureSurfaced ==
  Done(FallbackOps) =>
    \A f1 \in FailsOf(last, "first") : \A f2 \in FailsOf(last, "fallback") :
      last.status = "raised" /\ last.err = f1.err

\* C2: set_sense takes exactly the profiles of shape Nd + (batch,): any other
\* shape ends in the shape error with the sensitivity buffer unchanged, that
\* shape succeeds and the buffer holds the profile.
C2_SenseShapeGuard ==
  (Done({"set_sense"}) /\ last.arg.loc = "host") =>
    IF last.arg.shape # Nd \o <<last.before.batch>>
    THEN /\ last.status = "raised"
         /\ last.err.type = "ValueError"
         /\ obj[last.self].coil = last.before.coil
    ELSE /\ last.status = "ok"
         /\ obj[last.self].coil = astype(last.arg.val)

\* C3: forward on an array that has neither shape Nd nor Nd + (batch,), and
\* adjoint on one that has neither (M,) nor (M, batch), raise a shape or type
\* error, return nothing and issue no stage after the first.
WrongShape(c) ==
  /\ IsArray(c.arg)
  /\ \/ c.op = "forward" /\ c.arg.shape \notin {Nd, Nd \o <<c.before.batch>>}
     \/ c.op = "adjoint" /\ c.arg.shape \notin {<<M>>, <<M, c.before.batch>>}

C3_WrongShapeRejected ==
  (Done({"forward", "adjoint"}) /\ WrongShape(last)) =>
    /\ last.status = "raised"
    /\ last.err.type \in {"ValueError", "TypeError"}
    /\ last.out = NoBuf
    /\ Len(last.stages) <= 1

\* C4: one call of an entry point, the entry points it calls included,
\* calls to_device at most once and no stage method more than twice.
Times(calls, name) == Cardinality({k \in DOMAIN calls : calls[k] = name})

C4_SingleFallback ==
  (Done(FallbackOps \cup {"selfadjoint", "selfadjoint_one2many2one"})) =>
    /\ last.nxfer <= 1
    /\ \A name \in Range(last.calls) : Times(last.calls, name) <= 2

\* C5: every device operation of an instance is issued while the context of
\* that instance is the active one.
C5_OwnContextActive ==
  pc = "done" => \A d \in Range(last.dev) : d.ctx = d.by

\* C6: a successful forward runs x2xx, xx2k, k2y and a successful adjoint
\* y2k, k2xx, xx2x, once each in this order, every stage on the output of the
\* stage before it; on an input of the planned shape the result is the
\* composition of the three stages on the input data.
C6_StageOrder ==
  /\ (Done({"forward"}) /\ last.status = "ok") =>
       /\ Names(last.stages) = <<"x2xx", "xx2k", "k2y">>
       /\ Chained(last)
       /\ last.arg.shape = last.before.multi_Nd =>
            last.out.val = ForwardOf(last.before, astype(last.arg.val))
  /\ (Done({"adjoint"}) /\ last.status = "ok") =>
       /\ Names(last.stages) = <<"y2k", "k2xx", "xx2x">>
       /\ Chained(last)
       /\ last.arg.shape = last.before.multi_M =>
            last.out.val = AdjointOf(last.before, astype(last.arg.val))

C6_Witness ==
  /\ Done({"adjoint"}) /\ last.status = "ok"
  /\ last.arg.loc = "host" /\ last.arg.shape = last.before.multi_M
  /\ last.before.batch = 2

\* C7: forward_one2many returns forward of the channel distribution of its
\* input, adjoint_many2one the channel combination of adjoint of its input,
\* both with the sensitivity buffer the instance holds at the call; the
\* distribution is the first stage, the combination the last.
C7_MultiChannel ==
  /\ (Done({"forward_one2many"}) /\ last.status = "ok") =>
       /\ Names(last.stages) = <<"s2x", "x2xx", "xx2k", "k2y">>
       /\ Chained(last)
       /\ last.arg.shape = Nd =>
            last.out.val =
              ForwardOf(last.before, DistributeOf(last.before.coil, astype(last.arg.val)))
  /\ (Done({"adjoint_many2one"}) /\ last.status = "ok") =>
       /\ Names(last.stages) = <<"y2k", "k2xx", "xx2x", "x2s">>
       /\ Chained(last)
       /\ last.arg.shape = last.before.multi_M =>
            last.out.val =
              CombineOf(last.before.coil, AdjointOf(last.before, astype(last.arg.val)))

C7_Witness ==
  /\ Done({"forward_one2many"}) /\ last.status = "ok"
  /\ last.arg.shape = Nd
  /\ last.before.coil \in Data
  /\ last.out.val = ForwardOf(last.before, DistributeOf(last.before.coil, last.arg.val))

\* C8: selfadjoint returns what adjoint returns on what forward returns, and
\* selfadjoint_one2many2one what adjoint_many2one returns on what
\* forward_one2many returns; every call runs all stages of both pipelines
\* anew, so the result depends on the input and the plan alone.
C8_SelfAdjoint ==
  /\ (Done({"selfadjoint"}) /\ IsArray(last.arg)
        /\ last.arg.shape = last.before.multi_Nd) =>
       /\ last.status = "ok"
       /\ Names(last.stages) = <<"x2xx", "xx2k", "k2y", "y2k", "k2xx", "xx2x">>
       /\ Chained(last)
       /\ last.out.val =
            AdjointOf(last.before, ForwardOf(last.before, astype(last.arg.val)))
  /\ (Done({"selfadjoint_one2many2one"}) /\ IsArray(last.arg) /\ last.arg.shape = Nd) =>
       /\ last.status = "ok"
       /\ Names(last.stages) =
            <<"s2x", "x2xx", "xx2k", "k2y", "y2k", "k2xx", "xx2x", "x2s">>
       /\ Chained(last)
       /\ last.out.val =
            CombineOf(last.before.coil,
              AdjointOf(last.before,
                ForwardOf(last.before,
                  DistributeOf(last.before.coil, astype(last.arg.val)))))
  /\ (Done({"forward"}) /\ IsArray(last.arg) /\ last.arg.shape = last.before.multi_Nd) =>
       last.out.val = ForwardOf(last.before, astype(last.arg.val))
  /\ (Done({"adjoint"}) /\ IsArray(last.arg) /\ last.arg.shape = last.before.multi_M) =>
       last.out.val = AdjointOf(last.before, astype(last.arg.val))

C8_Witness ==
  /\ Done({"selfadjoint_one2many2one"}) /\ last.status = "ok"
  /\ last.arg.shape = Nd /\ last.arg.val = <<"b">>
  /\ last.before.coil = <<"a">>
  /\ Len(last.stages) = 8

\* C9: forward on an Nd-shaped input with batch count 1 returns shape (M,),
\* on an Nd + (b,)-shaped input shape (M, b); adjoint maps (M,) to Nd and
\* (M, b) to Nd + (b,).
C9_ShapesByBatch ==
  /\ (Done({"forward"}) /\ last.status = "ok") =>
       /\ (last.before.batch = 1 /\ last.arg.shape = Nd) => last.out.shape = <<M>>
       /\ last.arg.shape = Nd \o <<last.before.batch>> =>
            last.out.shape = <<M, last.before.batch>>
  /\ (Done({"adjoint"}) /\ last.status = "ok") =>
       /\ (last.before.batch = 1 /\ last.arg.shape = <<M>>) => last.out.shape = Nd
       /\ last.arg.shape = <<M, last.before.batch>> =>
            last.out.shape = Nd \o <<last.before.batch>>

\* C9 (amended): the output shape follows the plan, not the input: forward
\* returns (M,) after a plan without batch argument and (M, b) after a plan
\* with batch = b, b = 1 included; adjoint returns Nd and Nd + (b,).
C9_ShapesByPlan ==
  /\ (Done({"forward"}) /\ last.status = "ok") =>
       last.out.shape =
         IF last.before.parallel_flag = 0 THEN <<M>> ELSE <<M, last.before.batch>>
  /\ (Done({"adjoint"}) /\ last.status = "ok") =>
       last.out.shape =
         IF last.before.parallel_flag = 0 THEN Nd ELSE Nd \o <<last.before.batch>>

C9_Witness ==
  /\ Done({"forward"}) /\ last.status = "ok"
  /\ last.before.parallel_flag = 1 /\ last.before.batch = 1
  /\ last.arg.shape = Nd
  /\ last.out.shape = <<M, 1>>

\* C10: forward, adjoint, forward_one2many and adjoint_many2one on a host
\* array of the planned shape raise nothing and return what they return on a
\* device buffer with the same data.
Expected(c) ==
  CASE c.op = "forward" -> c.before.multi_Nd
    [] c.op = "forward_one2many" -> Nd
    [] OTHER -> c.before.multi_M

OnDevice(c) ==
  CASE c.op = "forward" -> ForwardOf(c.before, astype(c.arg.val))
    [] c.op = "adjoint" -> AdjointOf(c.before, astype(c.arg.val))
    [] c.op = "forward_one2many" ->
         ForwardOf(c.before, DistributeOf(c.before.coil, astype(c.arg.val)))
    [] OTHER -> CombineOf(c.before.coil, AdjointOf(c.before, astype(c.arg.val)))

Transforms == {"forward", "adjoint", "forward_one2many", "adjoint_many2one"}

C10_HostInputAccepted ==
  (Done(Transforms) /\ last.arg.shape = Expected(last)) =>
    /\ last.arg.loc = "host" =>
         /\ last.status = "ok"
         /\ last.nxfer = 1
         /\ last.out.val = OnDevice(last)
    /\ last.arg.loc = "dev" =>
         /\ last.status = "ok"
         /\ last.nxfer = 0
         /\ last.out.val = OnDevice(last)

C10_Witness ==
  /\ Done({"adjoint_many2one"}) /\ last.status = "ok"
  /\ last.arg.loc = "host" /\ last.arg.shape = last.before.multi_M
  /\ last.arg.val \in Wide
  /\ last.nxfer = 1

\* C11: on a released instance every public operation raises and returns
\* nothing, and a release that returned has left the instance without
\* interpolator, volume and sensitivity buffer, scaling tensor, compiled
\* program, FFT and execution context.
C11_ReleaseDropsAll ==
  /\ (pc = "done" /\ ~last.before.thr) =>
       /\ last.status = "raised"
       /\ last.out = NoBuf
  /\ (Done({"release"}) /\ last.status = "ok") =>
       /\ ~obj[last.self].thr /\ ~obj[last.self].prg /\ ~obj[last.self].volume
       /\ obj[last.self].coil = NoVal /\ obj[last.self].pELL = NoVal
       /\ obj[last.self].tSN = NoVal
       /\ obj[last.self].fftShape = <<>>

\* C12: after plan and after every reset_sense the sensitivity buffer is all
\* ones, whatever it held before, and a multi-channel forward that finds it so
\* multiplies the channels by ones.
C12_UniformSense ==
  /\ (pc = "done" /\ last.op = "plan" /\ last.status = "ok") =>
       obj[last.self].coil = Ones
  /\ Done({"reset_sense"}) =>
       /\ last.status = "ok"
       /\ obj[last.self].coil = Ones
  /\ (Done({"forward_one2many"}) /\ last.status = "ok" /\ last.arg.shape = Nd
        /\ last.before.coil = Ones) =>
       last.out.val =
         ForwardOf(last.before, <<"mul", Ones, <<"populate", astype(last.arg.val)>>>>)

C12_Witness ==
  /\ Done({"reset_sense"}) /\ last.status = "ok"
  /\ last.before.coil \in Data
  /\ obj[last.self].coil = Ones

\* C13: forward, adjoint, forward_one2many, adjoint_many2one, selfadjoint,
\* selfadjoint_one2many2one and to_device leave the sensitivity buffer, the
\* interpolator and the scaling tensor as they were; between plan and release
\* the sensitivity buffer changes in set_sense and reset_sense only.
FrameOps ==
  {"forward", "adjoint", "forward_one2many", "adjoint_many2one", "selfadjoint",
   "selfadjoint_one2many2one", "to_device"}

C13_SettersOnly ==
  /\ (pc = "done" /\ last.op \in FrameOps) =>
       /\ obj[last.self].coil = last.before.coil
       /\ obj[last.self].pELL = last.before.pELL
       /\ obj[last.self].tSN = last.before.tSN
  /\ (pc = "done" /\ obj[last.self].coil # last.before.coil) =>
       last.op \in {"set_sense", "reset_sense", "plan", "release"}

C13_Witness ==
  /\ Done({"adjoint_many2one"}) /\ last.status = "ok"
  /\ last.before.coil \in Data
  /\ obj[last.self].coil = last.before.coil
  /\ obj[last.self].pELL = <<"pELL">> /\ obj[last.self].tSN = <<"tSN">>

\* C15: when a public operation has returned or raised, every context
\* activation made during the call has been released again: the activation
\* stack is as deep as before the call.
C15_ActivationReleased ==
  pc = "done" => last.npush = last.npop

\* C16: forward, adjoint, forward_one2many, adjoint_many2one and selfadjoint
\* leave the caller's buffer with the contents it had, and the in-place FFT of
\* k2xx and the in-place multiply of x2s work on a buffer allocated during the
\* call.
InputOps == {"forward", "adjoint", "forward_one2many", "adjoint_many2one", "selfadjoint"}

C16_InputUnchanged ==
  (pc = "done" /\ last.op \in InputOps) =>
    /\ last.argAfter = last.arg
    /\ \A st \in Range(last.stages) : st.name \in {"k2xx", "x2s"} => st.in > 1

C16_Witness ==
  /\ Done({"selfadjoint"}) /\ last.status = "ok"
  /\ last.arg.loc = "dev" /\ last.arg.shape = last.before.multi_Nd
  /\ last.argAfter = last.arg
  /\ \E st \in Range(last.stages) : st.name = "k2xx" /\ st.in > 1

====
